---------------------------- MODULE Spec2Model ----------------------------
(***************************************************************************)
(* The incremental query database of crates/sqt-db/src/lib.rs.             *)
(*                                                                         *)
(* The five derived queries (parse_model, model_refs, all_models,          *)
(* resolve_ref, file_diagnostics) are translated from their Rust bodies.   *)
(* The memoising engine they run on is the salsa crate, pulled in by the   *)
(* #[salsa::query_group] / #[salsa::database] attributes; its behaviour    *)
(* (revisions, dependency recording, validation with early cutoff) is      *)
(* modelled after section 4.2 of the specification.                        *)
(*                                                                         *)
(* Strings are TLA+ strings; offsets are 0-based byte offsets as in Rust.  *)
(***************************************************************************)
EXTENDS Integers, Sequences, FiniteSets, TLC

VARIABLES
    fileText,    \* input cells file_text(path): [set, value, changed_at]
    allFiles,    \* input cell all_files(): [set, value, changed_at]
    revision,    \* the engine's current revision
    memo,        \* cache entries of the derived queries, by key
    recomputes,  \* per key: invocations of its query function since the last write
    last,        \* the last operation: what it was, how it ended, which functions ran
    lastWrite,   \* the last write: what it replaced and what was cached before it
    ops          \* operations performed since the host loaded the project

vars == <<fileText, allFiles, revision, memo, recomputes, last, lastWrite, ops>>

-----------------------------------------------------------------------------
(* Bounds of the model *)

\* operations (writes and reads) performed after the host has loaded a project
MaxOps == 3

\* tokens a text of the reference scanner's input set is made of
MaxTokens == 3

-----------------------------------------------------------------------------
(* String helpers: str::find, str::contains, slicing *)

Max(a, b) == IF a > b THEN a ELSE b

\* &s[from..to] with 0-based byte offsets, to exclusive
Slice(s, from, to) == SubSeq(s, from + 1, to)

\* s[from..].find(pat): offset of the first match relative to from, -1 for None
RECURSIVE FindAt(_, _, _, _)
FindAt(s, pat, from, i) ==
    IF from + i + Len(pat) > Len(s) THEN -1
    ELSE IF Slice(s, from + i, from + i + Len(pat)) = pat THEN i
    ELSE FindAt(s, pat, from, i + 1)

Find(s, pat, from) == FindAt(s, pat, from, 0)

Contains(s, pat) == Find(s, pat, 0) >= 0

\* offset of the last occurrence of the one-byte pattern c in s, -1 for None
RECURSIVE RFindAt(_, _, _)
RFindAt(s, c, i) ==
    IF i < 0 THEN -1
    ELSE IF Slice(s, i, i + 1) = c THEN i
    ELSE RFindAt(s, c, i - 1)

RFind(s, c) == RFindAt(s, c, Len(s) - 1)

-----------------------------------------------------------------------------
(* std::path::Path as used by the queries *)

\* Option<T>: None is the empty sequence, Some(x) the one-element sequence
None == << >>
Some(x) == << x >>
IsNone(o) == Len(o) = 0
IsSome(o) == Len(o) = 1
Unwrap(o) == o[1]

\* the components of a path between separators, empty ones and "." dropped
RECURSIVE SplitFrom(_, _, _, _)
SplitFrom(s, i, cur, acc) ==
    LET push == IF cur = "" \/ cur = "." THEN acc ELSE Append(acc, cur)
    IN  IF i >= Len(s) THEN push
        ELSE IF Slice(s, i, i + 1) = "/" THEN SplitFrom(s, i + 1, "", push)
        ELSE SplitFrom(s, i + 1, cur \o Slice(s, i, i + 1), acc)

Components(path) == SplitFrom(path, 0, "", << >>)

\* Path::file_name: the last component when it is a normal one
FileName(path) ==
    LET cs == Components(path)
    IN  IF Len(cs) = 0 THEN None
        ELSE IF cs[Len(cs)] = ".." THEN None
        ELSE Some(cs[Len(cs)])

\* Path::file_stem: the file name up to its last '.', the whole name when it
\* has no '.' or only a leading one
FileStem(path) ==
    LET fn == FileName(path)
    IN  IF IsNone(fn) THEN None
        ELSE LET name == Unwrap(fn)
                 dot  == RFind(name, ".")
             IN  IF dot <= 0 THEN Some(name) ELSE Some(Slice(name, 0, dot))


-----------------------------------------------------------------------------
(* The inputs the model draws from *)

users     == "models/users.sql"
orders    == "models/orders.sql"
old_users == "old_models/users.sql"
util      == "util.sql"
v2_util   == "models_v2/util.sql"

Paths == {users, orders, old_users, util, v2_util}

SelectText  == "SELECT id FROM t"
SelectText2 == "select id from t2"
NoQuery     == "no query here"
RefUsers    == "SELECT * FROM x JOIN {{ ref('users') }}"
RefMissing  == "SELECT {{ ref('missing') }}"
RefMixed    == "select {{ ref('missing') }} {{ ref('users') }} {{ ref('missing') }}"
ScenarioE   == "{{ ref('users' }} {{ ref('orders') }}"

Texts == {SelectText, SelectText2, NoQuery, RefUsers, RefMissing, RefMixed}

\* the names resolve_ref is asked for
Names == {"users", "orders", "missing"}

\* the inputs of the reference scanner: every text of up to MaxTokens tokens
Tokens == {"{{ ref('", "')", "a", "'", "{{ ref('a') }}"}

RECURSIVE Concat(_)
Concat(seq) == IF Len(seq) = 0 THEN "" ELSE Head(seq) \o Concat(Tail(seq))

RefTexts ==
    {ScenarioE} \cup {Concat(seq) : seq \in UNION {[1..n -> Tokens] : n \in 0..MaxTokens}}

\* texts that spell the keyword in one case or another, and the empty text
EmptyText   == ""
MixedCase   == "Select id From t"
CamelCase   == "sElEcT 1"
Selection   == "the selection"
CaseTexts == {EmptyText, MixedCase, CamelCase, Selection, SelectText, SelectText2, NoQuery}

AllTexts == Texts \cup RefTexts \cup CaseTexts

\* the permutations of a set of paths, as sequences
Perms(S) == {o \in [1..Cardinality(S) -> S] : \A x \in S : \E i \in DOMAIN o : o[i] = x}

-----------------------------------------------------------------------------
(* Keys of the engine: (query kind, argument) *)

FileTextKey(path)        == [q |-> "file_text", arg |-> path]
AllFilesKey              == [q |-> "all_files", arg |-> "()"]
ParseModelKey(path)      == [q |-> "parse_model", arg |-> path]
ModelRefsKey(path)       == [q |-> "model_refs", arg |-> path]
AllModelsKey             == [q |-> "all_models", arg |-> "()"]
ResolveRefKey(name)      == [q |-> "resolve_ref", arg |-> name]
FileDiagnosticsKey(path) == [q |-> "file_diagnostics", arg |-> path]

IsInput(key) == key.q \in {"file_text", "all_files"}

DerivedKeys ==
    {ParseModelKey(p) : p \in Paths} \cup {ModelRefsKey(p) : p \in Paths}
    \cup {AllModelsKey} \cup {ResolveRefKey(n) : n \in Names}
    \cup {FileDiagnosticsKey(p) : p \in Paths}

\* the cell of an input key
Cell(key) == IF key.q = "file_text" THEN fileText[key.arg] ELSE allFiles

-----------------------------------------------------------------------------
(* Data of the derived queries *)

Model(name, path) == [name |-> name, path |-> path]

Diagnostic(severity, message) ==
    [severity |-> severity, message |-> message, line |-> 0, column |-> 0]

\* HashMap<PathBuf, Model> as a function on its key set
EmptyMap == [p \in {} |-> Model("", "")]
InsertIntoFresh(map, k, v) == [p \in {k} |-> v]
Insert(map, k, v) == [p \in DOMAIN map \cup {k} |-> IF p = k THEN v ELSE map[p]]

\* the entries of a map in iteration order ord
RECURSIVE IterFrom(_, _, _)
IterFrom(map, ord, i) ==
    IF i > Len(ord) THEN << >>
    ELSE IF ord[i] \in DOMAIN map
         THEN << <<ord[i], map[ord[i]]>> >> \o IterFrom(map, ord, i + 1)
         ELSE IterFrom(map, ord, i + 1)

Iter(map, ord) == IterFrom(map, ord, 1)

-----------------------------------------------------------------------------
(* The engine, part 1: evaluation state, frames and reads                  *)
(*                                                                         *)
(* An evaluation threads st = [memo, recomputes, active]: the cache, the   *)
(* recomputation counters and the keys whose function is running.  Every   *)
(* engine operation returns the state it leaves and an outcome: "ok",      *)
(* "NotFound" (an input cell read before it was written) or "Cycle".       *)

Result(st, outcome, value, changed_at) ==
    [st |-> st, outcome |-> outcome, value |-> value, changed_at |-> changed_at]

Failed(st, outcome) == Result(st, outcome, None, 0)

\* the recording context of a running query function
Frame(st) == [st |-> st, outcome |-> "ok", deps |-> << >>, changed_at |-> 0]

\* what a query function hands back: its value and what it read
Return(c, value) ==
    [st |-> c.st, outcome |-> c.outcome, value |-> value,
     deps |-> c.deps, changed_at |-> c.changed_at]

InSeq(x, seq) == \E i \in DOMAIN seq : seq[i] = x

\* the dependency list keeps the first read of each key
AddDep(deps, key) == IF InSeq(key, deps) THEN deps ELSE Append(deps, key)

RECURSIVE Fetch(_, _, _)

\* db.<query>(arg) inside a query function: the read goes through the engine
\* and is recorded in the caller's frame
Get(c, key, ord) ==
    LET r == Fetch(c.st, key, ord)
    IN  [ctx |-> [st |-> r.st, outcome |-> r.outcome,
                  deps |-> AddDep(c.deps, key),
                  changed_at |-> Max(c.changed_at, r.changed_at)],
         value |-> r.value]

-----------------------------------------------------------------------------
(* The query functions *)

\* lib.rs 66-79: the Model of a path holding text, if any
ModelOfFileName(path, text) ==
    LET model_name == FileName(path)
    IN  IF IsNone(model_name) THEN None
        ELSE IF ~Contains(text, "SELECT") /\ ~Contains(text, "select") THEN None
        ELSE Some(Model(Unwrap(model_name), path))
ModelOf(path, text) ==
    LET model_name == FileStem(path)
    IN  IF IsNone(model_name) THEN None
        ELSE IF ~Contains(text, "SELECT") /\ ~Contains(text, "select") THEN None
        ELSE Some(Model(Unwrap(model_name), path))

\* ModelOf on the inputs of the model, evaluated once
ModelTable == [path \in Paths |-> [text \in AllTexts |-> ModelOf(path, text)]]

\* lib.rs 60: db.file_text(path.clone()), the one input parse_model reads,
\* and not the text of every listed file
RECURSIVE TextsRead(_, _, _, _)
TextsRead(c, files, i, ord) ==
    IF c.outcome # "ok" \/ i > Len(files) THEN c
    ELSE TextsRead(Get(c, FileTextKey(files[i]), ord).ctx, files, i + 1, ord)

parse_model_project_wide(st, path, ord) ==
    LET files == Get(Frame(st), AllFilesKey, ord)
        c     == IF files.ctx.outcome # "ok" THEN files.ctx
                 ELSE TextsRead(files.ctx, files.value, 1, ord)
        text  == Get(c, FileTextKey(path), ord)
    IN  IF c.outcome # "ok" THEN Return(c, None)
        ELSE IF text.ctx.outcome # "ok" THEN Return(text.ctx, None)
        ELSE Return(text.ctx, ModelTable[path][text.value])

\* lib.rs 59-80: parse_model calls no derived query, and not all_models to
\* look at the other models
parse_model_checking_registry(st, path, ord) ==
    LET models == Get(Frame(st), AllModelsKey, ord)
        text   == Get(models.ctx, FileTextKey(path), ord)
    IN  IF models.ctx.outcome # "ok" THEN Return(models.ctx, None)
        ELSE IF text.ctx.outcome # "ok" THEN Return(text.ctx, None)
        ELSE Return(text.ctx, ModelTable[path][text.value])

parse_model(st, path, ord) ==
    LET text == Get(Frame(st), FileTextKey(path), ord)
    IN  IF text.ctx.outcome # "ok" THEN Return(text.ctx, None)
        ELSE Return(text.ctx, ModelTable[path][text.value])

\* lib.rs 92: the bytes skipped after the start of "{{ ref('"
PrefixSkipWrong == 8 - 1
PrefixSkip == 8

\* lib.rs 97: the bytes skipped after the start of "')"
CloseSkip == 2

\* lib.rs 96: refs.push(ref_name.to_string())
PushUnlessPresent(refs, ref_name) == IF InSeq(ref_name, refs) THEN refs ELSE Append(refs, ref_name)
Push(refs, ref_name) == Append(refs, ref_name)

\* lib.rs 90-101: the while loop over the markers of text_str
RECURSIVE ScanRefs(_, _, _)
ScanRefs(text_str, pos, refs) ==
    LET start == Find(text_str, "{{ ref('", pos)
    IN  IF start < 0 THEN refs
        ELSE LET abs_start == pos + start + PrefixSkip
                 end       == Find(text_str, "')", abs_start)
             IN  IF end < 0 THEN refs
                 ELSE ScanRefs(text_str, abs_start + end + CloseSkip,
                               Push(refs, Slice(text_str, abs_start, abs_start + end)))

\* lib.rs 87-103: the references of a text
RefsOf(text) == ScanRefs(text, 0, << >>)

\* RefsOf on the inputs of the model, evaluated once
RefsTable == [text \in AllTexts |-> RefsOf(text)]

model_refs(st, path, ord) ==
    LET text == Get(Frame(st), FileTextKey(path), ord)
    IN  IF text.ctx.outcome # "ok" THEN Return(text.ctx, << >>)
        ELSE Return(text.ctx, RefsTable[text.value])

\* lib.rs 111: db.parse_model(path.clone()), the Model of a listed file read
\* through its own query and not from the text of the file
ParsedFromText(c, path, ord) ==
    LET text == Get(c, FileTextKey(path), ord)
    IN  [ctx |-> text.ctx,
         value |-> IF text.ctx.outcome = "ok" THEN ModelTable[path][text.value] ELSE None]
Parsed(c, path, ord) == Get(c, ParseModelKey(path), ord)

\* lib.rs 110-114: for path in files.iter()
RECURSIVE all_models_for(_, _, _, _, _)
all_models_for(c, files, i, models, ord) ==
    IF c.outcome # "ok" \/ i > Len(files) THEN Return(c, models)
    ELSE LET model == Parsed(c, files[i], ord)
         IN  all_models_for(model.ctx, files, i + 1,
                            IF model.ctx.outcome = "ok" /\ IsSome(model.value)
                            THEN Insert(models, files[i], Unwrap(model.value))
                            ELSE models,
                            ord)

all_models(st, ord) ==
    LET files == Get(Frame(st), AllFilesKey, ord)
    IN  IF files.ctx.outcome # "ok" THEN Return(files.ctx, EmptyMap)
        ELSE all_models_for(files.ctx, files.value, 1, EmptyMap, ord)

\* lib.rs 124: |(_, model)| model.name == model_name
PathMatches(model, model_name) == model.path = model_name
NameMatches(model, model_name) == model.name = model_name

\* lib.rs 123-125: models.iter().find(..).map(..) over the entries in
\* iteration order
RECURSIVE FindByName(_, _, _)
FindByName(entries, model_name, i) ==
    IF i > Len(entries) THEN None
    ELSE IF NameMatches(entries[i][2], model_name) THEN Some(entries[i][1])
    ELSE FindByName(entries, model_name, i + 1)

resolve_ref(st, model_name, ord) ==
    LET models == Get(Frame(st), AllModelsKey, ord)
    IN  IF models.ctx.outcome # "ok" THEN Return(models.ctx, None)
        ELSE Return(models.ctx, FindByName(Iter(models.value, ord), model_name, 1))

\* lib.rs 134: path.to_str().map(|s| s.contains("models/")).unwrap_or(false);
\* the paths of the model are UTF-8, so to_str is Some
InModelsDir(path) == Contains(path, "models/")

\* InModelsDir on the paths of the model, evaluated once
InModelsDirTable == [path \in Paths |-> InModelsDir(path)]

\* lib.rs 135-140: the diagnostic of a file that is no model
NotAQuery == Diagnostic("Warning", "File does not contain a valid SQL query")

\* lib.rs 149-154: the diagnostic of a reference that does not resolve
UndefinedRefUnquoted(ref_name) ==
    Diagnostic("Error", "Undefined model reference: " \o ref_name)
UndefinedRef(ref_name) ==
    Diagnostic("Error", "Undefined model reference: '" \o ref_name \o "'")

\* lib.rs 147-156: for ref_name in refs.iter()
RECURSIVE file_diagnostics_for(_, _, _, _, _)
file_diagnostics_for(c, refs, i, diagnostics, ord) ==
    IF c.outcome # "ok" \/ i > Len(refs) THEN Return(c, diagnostics)
    ELSE LET resolved == Get(c, ResolveRefKey(refs[i]), ord)
         IN  file_diagnostics_for(resolved.ctx, refs, i + 1,
                 IF resolved.ctx.outcome = "ok" /\ IsNone(resolved.value)
                 THEN Append(diagnostics, UndefinedRef(refs[i]))
                 ELSE diagnostics,
                 ord)

\* lib.rs 132-143: a file that is no model returns before model_refs is read
file_diagnostics_eager(st, path, ord) ==
    LET model == Get(Frame(st), ParseModelKey(path), ord)
        refs  == Get(model.ctx, ModelRefsKey(path), ord)
    IN  IF model.ctx.outcome # "ok" THEN Return(model.ctx, << >>)
        ELSE IF refs.ctx.outcome # "ok" THEN Return(refs.ctx, << >>)
        ELSE IF IsNone(model.value)
        THEN Return(refs.ctx,
                    IF InModelsDirTable[path]
                    THEN << NotAQuery >>
                    ELSE << >>)
        ELSE file_diagnostics_for(refs.ctx, refs.value, 1, << >>, ord)

file_diagnostics(st, path, ord) ==
    LET model == Get(Frame(st), ParseModelKey(path), ord)
    IN  IF model.ctx.outcome # "ok" THEN Return(model.ctx, << >>)
        ELSE IF IsNone(model.value)
        THEN Return(model.ctx,
                    IF InModelsDirTable[path]
                    THEN << NotAQuery >>
                    ELSE << >>)
        ELSE LET refs == Get(model.ctx, ModelRefsKey(path), ord)
             IN  IF refs.ctx.outcome # "ok" THEN Return(refs.ctx, << >>)
                 ELSE file_diagnostics_for(refs.ctx, refs.value, 1, << >>, ord)

\* the function of a derived key
Execute(st, key, ord) ==
    CASE key.q = "parse_model"      -> parse_model(st, key.arg, ord)
      [] key.q = "model_refs"       -> model_refs(st, key.arg, ord)
      [] key.q = "all_models"       -> all_models(st, ord)
      [] key.q = "resolve_ref"      -> resolve_ref(st, key.arg, ord)
      [] key.q = "file_diagnostics" -> file_diagnostics(st, key.arg, ord)

-----------------------------------------------------------------------------
(* The engine, part 2: memoisation, validation, early cutoff *)

Store(m, key, entry) == [k \in DOMAIN m \cup {key} |-> IF k = key THEN entry ELSE m[k]]
Drop(m, key) == [k \in DOMAIN m \ {key} |-> m[k]]

\* a key whose validation or function failed keeps no entry
Abandon(st, key, outcome) == Failed([st EXCEPT !.memo = Drop(@, key)], outcome)

\* an input cell changed after rev
InputChangedLater(cell, rev) == cell.changed_at > rev + 1
InputChangedSince(cell, rev) == cell.changed_at > rev

\* the revision a recomputed value is stamped with: the old entry's when the
\* value is equal to the old one (early cutoff), else that of its newest
\* dependency
StampChangedAt(old, value, changed_at) ==
    IF IsSome(old) /\ Unwrap(old).value = value
    THEN Unwrap(old).changed_at
    ELSE changed_at

\* the function of key returned r: store it over the entry old, if any
Finish(old, key, r) ==
    LET st2 == [r.st EXCEPT !.active = @ \ {key}]
    IN  IF r.outcome # "ok" THEN Abandon(st2, key, r.outcome)
        ELSE LET stamp == StampChangedAt(old, r.value, r.changed_at)
             IN  Result([st2 EXCEPT !.memo =
                            Store(@, key, [value |-> r.value, changed_at |-> stamp,
                                           verified_at |-> revision, deps |-> r.deps])],
                        "ok", r.value, stamp)

\* run the function of key under a fresh frame and store what it returns
Recompute(st, key, ord) ==
    Finish(IF key \in DOMAIN st.memo THEN Some(st.memo[key]) ELSE None, key,
           Execute([st EXCEPT !.recomputes[key] = @ + 1,
                              !.active = @ \cup {key}], key, ord))

RECURSIVE Refresh(_, _, _)

\* has dep changed after rev?  A derived dependency is brought up to date
\* first; one that holds no entry counts as changed.
MaybeChangedSince(st, dep, rev, ord) ==
    IF IsInput(dep)
    THEN [st |-> st, outcome |-> "ok", changed |-> InputChangedSince(Cell(dep), rev)]
    ELSE IF dep \notin DOMAIN st.memo
    THEN [st |-> st, outcome |-> "ok", changed |-> TRUE]
    ELSE LET r == Refresh(st, dep, ord)
         IN  [st |-> r.st, outcome |-> r.outcome, changed |-> r.changed_at > rev]

\* the recorded dependencies are checked in order, up to the first changed one
RECURSIVE DepsChanged(_, _, _, _, _)
DepsChanged(st, deps, i, rev, ord) ==
    IF i > Len(deps) THEN [st |-> st, outcome |-> "ok", changed |-> FALSE]
    ELSE LET d == MaybeChangedSince(st, deps[i], rev, ord)
         IN  IF d.outcome # "ok" \/ d.changed THEN d
             ELSE DepsChanged(d.st, deps, i + 1, rev, ord)

\* bring the entry of a derived key up to date with the current revision
Refresh(st, key, ord) ==
    IF key \in st.active THEN Failed(st, "Cycle")
    ELSE IF key \notin DOMAIN st.memo THEN Recompute(st, key, ord)
    ELSE LET m == st.memo[key]
         IN  IF m.verified_at = revision THEN Result(st, "ok", m.value, m.changed_at)
             ELSE LET dc == DepsChanged(st, m.deps, 1, m.verified_at, ord)
                  IN  IF dc.outcome # "ok" THEN Abandon(dc.st, key, dc.outcome)
                      ELSE IF dc.changed THEN Recompute(dc.st, key, ord)
                      ELSE Result([dc.st EXCEPT !.memo[key].verified_at = revision],
                                  "ok", m.value, m.changed_at)

\* the value of a key at the current revision
Fetch(st, key, ord) ==
    IF IsInput(key)
    THEN IF Cell(key).set
         THEN Result(st, "ok", Cell(key).value, Cell(key).changed_at)
         ELSE Failed(st, "NotFound")
    ELSE Refresh(st, key, ord)

-----------------------------------------------------------------------------
(* The database: construction, loading, writes, reads *)

UnsetTextEmpty == [set |-> TRUE, value |-> "", changed_at |-> 0]
UnsetText == [set |-> FALSE, value |-> "", changed_at |-> 0]
UnsetFiles == [set |-> FALSE, value |-> << >>, changed_at |-> 0]

NoMemo == [k \in {} |-> 0]
NoRecomputes == [k \in DerivedKeys |-> 0]

\* a write starts a new revision and stamps the cell with it
Written(value, rev) == [set |-> TRUE, value |-> value, changed_at |-> rev]

\* A project is what a host loads into a fresh database before it asks
\* anything: texts[path] and files are Some(value) for the cells it writes.
\* It writes the file texts in a fixed order of the paths, then the file set,
\* one write each, so the n-th cell written is stamped with revision 1 + n.
Project(texts, files) ==
    [texts |-> [p \in Paths |-> IF p \in DOMAIN texts THEN Some(texts[p]) ELSE None],
     files |-> files]

PathOrder == CHOOSE o \in Perms(Paths) : TRUE
CellOrder == [i \in 1..(Len(PathOrder) + 1) |->
                 IF i <= Len(PathOrder) THEN FileTextKey(PathOrder[i]) ELSE AllFilesKey]
Given(proj, key) == IF key.q = "file_text" THEN proj.texts[key.arg] ELSE proj.files
WritesUpTo(proj, i) == Cardinality({j \in 1..i : IsSome(Given(proj, CellOrder[j]))})
IndexOf(key) == CHOOSE i \in DOMAIN CellOrder : CellOrder[i] = key
LoadedCell(proj, key) ==
    IF IsNone(Given(proj, key))
    THEN (IF key.q = "file_text" THEN UnsetText ELSE UnsetFiles)
    ELSE Written(Unwrap(Given(proj, key)), 1 + WritesUpTo(proj, IndexOf(key)))

NoOp == [op |-> "load", key |-> AllFilesKey, outcome |-> "ok", value |-> None, ran |-> {}]
NoWrite == [key |-> AllFilesKey, rev |-> 0, differs |-> FALSE,
            before |-> None, after |-> None, cached |-> {}, fresh |-> {}]

\* Database::default() followed by the loading writes of proj: revision 1 and
\* no cell set when the project is empty.  No query has been read yet.
Loaded(proj) ==
    /\ fileText = [p \in Paths |-> LoadedCell(proj, FileTextKey(p))]
    /\ allFiles = LoadedCell(proj, AllFilesKey)
    /\ revision = 1 + WritesUpTo(proj, Len(CellOrder))
    /\ memo = NoMemo
    /\ recomputes = NoRecomputes
    /\ last = NoOp
    /\ lastWrite = NoWrite
    /\ ops = 0

\* the engine state a top-level read starts from
Now == [memo |-> memo, recomputes |-> recomputes, active |-> {}]

\* the orders a HashMap of the current file set may iterate in: unspecified,
\* and chosen anew for each evaluation
Orders == Perms({allFiles.value[i] : i \in DOMAIN allFiles.value})

\* the keys whose function an evaluation from Now invoked
Ran(st) == {k \in DerivedKeys : st.recomputes[k] > recomputes[k]}

\* the evaluation that ended with r invoked no query function
Untouched(r) == r.outcome = "ok" /\ Ran(r.st) = {}

\* the paths whose diagnostics are cached and would be served as they are:
\* reading them now invokes no query function
ServedFromCache ==
    {q \in Paths :
        /\ FileDiagnosticsKey(q) \in DOMAIN memo
        /\ \A ord \in Orders : Untouched(Fetch(Now, FileDiagnosticsKey(q), ord))}

\* the keys of parse_model, model_refs and all_models whose entry is up to
\* date: reading them now invokes no query function
UpToDate ==
    {k \in DOMAIN memo :
        /\ k.q \in {"parse_model", "model_refs", "all_models"}
        /\ \A ord \in Orders : Untouched(Fetch(Now, k, ord))}

\* the Model parse_model extracts from a cell, None while it is unset
ModelIn(path, cell) == IF cell.set THEN ModelTable[path][cell.value] ELSE None

\* db.set_file_text(path, Arc::new(text))
SetFileText(path, text) ==
    /\ ops < MaxOps
    /\ ops' = ops + 1
    /\ revision' = revision + 1
    /\ fileText' = [fileText EXCEPT ![path] = Written(text, revision + 1)]
    /\ recomputes' = NoRecomputes
    /\ last' = [op |-> "write", key |-> FileTextKey(path), outcome |-> "ok",
                value |-> None, ran |-> {}]
    /\ lastWrite' = [key |-> FileTextKey(path), rev |-> revision + 1,
                     differs |-> fileText[path].set /\ fileText[path].value # text,
                     before |-> ModelIn(path, fileText[path]),
                     after |-> ModelTable[path][text],
                     cached |-> ServedFromCache, fresh |-> UpToDate]
    /\ UNCHANGED <<allFiles, memo>>

\* db.set_all_files(Arc::new(files))
SetAllFiles(files) ==
    /\ ops < MaxOps
    /\ ops' = ops + 1
    /\ revision' = revision + 1
    /\ allFiles' = Written(files, revision + 1)
    /\ recomputes' = NoRecomputes
    /\ last' = [op |-> "write", key |-> AllFilesKey, outcome |-> "ok",
                value |-> None, ran |-> {}]
    /\ lastWrite' = [key |-> AllFilesKey, rev |-> revision + 1,
                     differs |-> allFiles.set /\ allFiles.value # files,
                     before |-> None, after |-> None, cached |-> ServedFromCache,
                     fresh |-> UpToDate]
    /\ UNCHANGED <<fileText, memo>>

\* the read of key ends with r: the cache and the counters are as the
\* evaluation left them
Answer(key, r) ==
    /\ memo' = r.st.memo
    /\ recomputes' = r.st.recomputes
    /\ last' = [op |-> "read", key |-> key, outcome |-> r.outcome,
                value |-> r.value, ran |-> Ran(r.st)]

\* a top-level read of a derived key
Read(key) ==
    /\ ops < MaxOps
    /\ ops' = ops + 1
    /\ \E ord \in Orders : Answer(key, Fetch(Now, key, ord))
    /\ UNCHANGED <<fileText, allFiles, revision, lastWrite>>

ReadParseModel(path)      == Read(ParseModelKey(path))
ReadModelRefs(path)       == Read(ModelRefsKey(path))
ReadAllModels             == Read(AllModelsKey)
ReadResolveRef(name)      == Read(ResolveRefKey(name))
ReadFileDiagnostics(path) == Read(FileDiagnosticsKey(path))

-----------------------------------------------------------------------------
(* Spec: a project of two models, users and orders, edited and queried *)

Projects ==
    { Project(<< >>, None),
      Project(users :> SelectText @@ orders :> RefUsers, Some(<<users, orders>>)),
      Project(orders :> RefMissing, Some(<<users, orders>>)),
      Project(users :> SelectText @@ orders :> RefUsers @@ old_users :> SelectText2,
              Some(<<old_users, orders, users>>)) }

EditedPaths == {users, orders}
EditTexts == {SelectText2, NoQuery, RefMixed}
FileLists == {<<users>>, <<orders, users>>}
AskedNames == {"users", "missing"}

Init == \E proj \in Projects : Loaded(proj)

Next ==
    \/ \E path \in EditedPaths, text \in EditTexts : SetFileText(path, text)
    \/ \E files \in FileLists : SetAllFiles(files)
    \/ \E path \in EditedPaths : ReadParseModel(path)
    \/ \E path \in EditedPaths : ReadModelRefs(path)
    \/ ReadAllModels
    \/ \E name \in AskedNames : ReadResolveRef(name)
    \/ \E path \in EditedPaths : ReadFileDiagnostics(path)

Spec == Init /\ [][Next]_vars

-----------------------------------------------------------------------------
(* SpecRefs: one file holding any text of the scanner's input set, read *)

InitRefs == \E text \in RefTexts : Loaded(Project(users :> text, None))

NextRefs == \E path \in {users} : ReadModelRefs(path)

SpecRefs == InitRefs /\ [][NextRefs]_vars

-----------------------------------------------------------------------------
(* SpecDiag: one file at any path of the model, model or not, and its       *)
(* diagnostics                                                             *)

InitDiag ==
    \E path \in Paths, text \in {NoQuery, SelectText} :
        Loaded(Project(path :> text, Some(<<path>>)))

NextDiag ==
    \/ \E path \in Paths : ReadFileDiagnostics(path)
    \/ \E path \in Paths : SetFileText(path, NoQuery)
    \/ \E path \in Paths : SetAllFiles(<< path >>)

SpecDiag == InitDiag /\ [][NextDiag]_vars

-----------------------------------------------------------------------------
(* SpecParse: one file written, at one of several paths, holding a text     *)
(* with or without the keyword; the per-file queries are read and texts    *)
(* are written, also at paths never written before                         *)

ParsedPaths == {users, util, old_users}
ParseEdits == {EmptyText, MixedCase}

InitParse ==
    \E path \in ParsedPaths, text \in CaseTexts :
        Loaded(Project(path :> text, None))

NextParse ==
    \/ \E path \in ParsedPaths : ReadParseModel(path)
    \/ \E path \in ParsedPaths : ReadModelRefs(path)
    \/ \E path \in ParsedPaths, text \in ParseEdits : SetFileText(path, text)

SpecParse == InitParse /\ [][NextParse]_vars

-----------------------------------------------------------------------------
(* What the properties speak of *)

\* the last operation was a read of key that returned
Returned(key) == last.op = "read" /\ last.key = key /\ last.outcome = "ok"

\* a cache-free evaluation of key on the current inputs
Cold == [memo |-> NoMemo, recomputes |-> NoRecomputes, active |-> {}]
Scratch(key, ord) == Fetch(Cold, key, ord)

\* the paths of the current file set
Listed == {allFiles.value[i] : i \in DOMAIN allFiles.value}

\* no write came after the last one recorded
SinceLastWrite == lastWrite.rev = revision

ResolveRefKeys == {ResolveRefKey(n) : n \in Names}

IsPrefixOf(a, b) == Len(a) <= Len(b) /\ SubSeq(b, 1, Len(a)) = a

-----------------------------------------------------------------------------
(* C1 *)

\* C1: every read of a derived query ends as a cache-free evaluation of the
\* query on the current inputs can end: with the same outcome and, when it
\* returns, with a value such an evaluation returns (the one value, but for
\* resolve_ref among models of one name).
C1_NeverStale ==
    last.op = "read" =>
        \E ord \in Orders :
            /\ Scratch(last.key, ord).outcome = last.outcome
            /\ last.outcome = "ok" => Scratch(last.key, ord).value = last.value

\* a cached value was invalidated by a write and the read after it returned
\* another value
C1_Witness ==
    /\ Returned(FileDiagnosticsKey(orders))
    /\ SinceLastWrite
    /\ orders \in lastWrite.cached
    /\ FileDiagnosticsKey(orders) \in last.ran
    /\ last.value # << >>

-----------------------------------------------------------------------------
(* C2 *)

\* the last write replaced the text of a file by another text that yields
\* the same Model
ModelKept ==
    /\ SinceLastWrite
    /\ lastWrite.key.q = "file_text"
    /\ lastWrite.differs
    /\ IsSome(lastWrite.before)
    /\ lastWrite.after = lastWrite.before

\* the last operation read the diagnostics of another file than the one
\* written, which were cached before the write
ReadCachedOther ==
    /\ last.op = "read"
    /\ last.key.q = "file_diagnostics"
    /\ last.key.arg # lastWrite.key.arg
    /\ last.key.arg \in lastWrite.cached

\* C2: after a write that keeps the Model of the written file, a read of the
\* cached diagnostics of another file returns without invoking
\* file_diagnostics of that file, all_models or resolve_ref.
C2_EarlyCutoff ==
    (ModelKept /\ ReadCachedOther) =>
        /\ last.outcome = "ok"
        /\ last.ran \cap ({last.key, AllModelsKey} \cup ResolveRefKeys) = {}

\* orders references users; users was rewritten, parse_model(users) ran
\* again and nothing above it did
C2_Witness ==
    /\ ModelKept
    /\ ReadCachedOther
    /\ last.key = FileDiagnosticsKey(orders)
    /\ lastWrite.key = FileTextKey(users)
    /\ InSeq(ResolveRefKey("users"), memo[last.key].deps)
    /\ last.ran = {ParseModelKey(users)}

-----------------------------------------------------------------------------
(* C3 *)

\* C3: between two writes the function of every key is invoked at most once.
C3_AtMostOnce == \A k \in DerivedKeys : recomputes[k] <= 1

-----------------------------------------------------------------------------
(* C4 *)

\* the paths among S whose text is written and yields a Model
ModelsAmong(S) == {p \in S : IsSome(ModelIn(p, fileText[p]))}

\* C4 as stated: the keys of the registry all_models returns are the paths,
\* among those whose text was written, that yield a Model.
C4_KeysAreWrittenModels ==
    Returned(AllModelsKey) => DOMAIN last.value = ModelsAmong(Paths)

\* C4 as amended: the keys of the registry all_models returns are the paths,
\* among those of the current file set, that yield a Model.
C4_KeysAreListedModels ==
    Returned(AllModelsKey) => DOMAIN last.value = ModelsAmong(Listed)

\* users was a model, was overwritten with a text without SELECT, and the
\* registry read next holds orders and no longer users
C4_Witness ==
    /\ Returned(AllModelsKey)
    /\ SinceLastWrite
    /\ lastWrite.key = FileTextKey(users)
    /\ IsSome(lastWrite.before)
    /\ IsNone(lastWrite.after)
    /\ DOMAIN last.value = {orders}

-----------------------------------------------------------------------------
(* C5 *)

ReadScenarioE ==
    /\ Returned(ModelRefsKey(users))
    /\ fileText[users].value = ScenarioE

\* C5 as stated: model_refs of the text of Scenario E is the empty list.
C5_ScenarioEEmpty == ReadScenarioE => last.value = << >>

\* C5 as amended: model_refs of the text of Scenario E is the one name that
\* runs from the first marker's prefix to the closing sequence of the second.
C5_ScenarioEOneName == ReadScenarioE => last.value = << "users' }} {{ ref('orders" >>

C5_Witness == ReadScenarioE

-----------------------------------------------------------------------------
(* C10 *)

\* the offsets at or after from at which pat occurs in text
Occurrences(text, pat, from) ==
    {i \in from..(Len(text) - Len(pat)) : SubSeq(text, i + 1, i + Len(pat)) = pat}

Least(S) == CHOOSE i \in S : \A j \in S : i <= j

\* the names between each marker prefix and the first closing sequence after
\* it, the scan resuming right after that closing sequence and ending at a
\* prefix that no closing sequence follows
RECURSIVE MarkerNames(_, _)
MarkerNames(text, from) ==
    LET prefixes == Occurrences(text, "{{ ref('", from)
    IN  IF prefixes = {} THEN << >>
        ELSE LET name   == Least(prefixes) + Len("{{ ref('")
                 closes == Occurrences(text, "')", name)
             IN  IF closes = {} THEN << >>
                 ELSE << SubSeq(text, name + 1, Least(closes)) >>
                      \o MarkerNames(text, Least(closes) + Len("')"))

\* C10: model_refs returns the names of the markers of the text in order,
\* duplicates kept, up to the first prefix that no closing sequence follows;
\* closing that prefix only adds names after those returned.
C10_MarkerNames ==
    Returned(ModelRefsKey(users)) =>
        /\ last.value = MarkerNames(fileText[users].value, 0)
        /\ IsPrefixOf(last.value, RefsOf(fileText[users].value \o "')"))

\* two markers of one name, then a prefix that is never closed
C10_Witness ==
    /\ Returned(ModelRefsKey(users))
    /\ last.value = << "a", "a" >>
    /\ Len(RefsOf(fileText[users].value \o "')")) = 3

-----------------------------------------------------------------------------
(* C6 *)

\* path has a directory component equal to `models`
UnderModelsDirectory(path) ==
    \E i \in 1..(Len(Components(path)) - 1) : Components(path)[i] = "models"

\* the last operation read the diagnostics of a written file that is no model
ReadNoModel(path) ==
    /\ Returned(FileDiagnosticsKey(path))
    /\ fileText[path].set
    /\ IsNone(ModelIn(path, fileText[path]))

\* C6: the diagnostics of a file that is no model are the one Warning
\* "File does not contain a valid SQL query" at (0,0) when the path has a
\* directory component equal to `models`, and the empty list for any other
\* path.
C6_WarningIffUnderModels ==
    \A path \in Paths :
        ReadNoModel(path) =>
            last.value =
                IF UnderModelsDirectory(path)
                THEN << [severity |-> "Warning",
                         message |-> "File does not contain a valid SQL query",
                         line |-> 0, column |-> 0] >>
                ELSE << >>

-----------------------------------------------------------------------------
(* C7 *)

\* a cache-free resolve_ref(name) on the current inputs finds no model
Unresolved(name) ==
    \A ord \in Orders : IsNone(Scratch(ResolveRefKey(name), ord).value)

\* one Error for each occurrence in refs of a name that does not resolve
RECURSIVE ErrorsFor(_)
ErrorsFor(refs) ==
    IF refs = << >> THEN << >>
    ELSE (IF Unresolved(Head(refs))
          THEN << [severity |-> "Error",
                   message |-> "Undefined model reference: '" \o Head(refs) \o "'",
                   line |-> 0, column |-> 0] >>
          ELSE << >>) \o ErrorsFor(Tail(refs))

\* the last operation read the diagnostics of a file that is a model
ReadOfModel(path) ==
    /\ Returned(FileDiagnosticsKey(path))
    /\ fileText[path].set
    /\ IsSome(ModelIn(path, fileText[path]))

\* C7: the diagnostics of a file that is a model are, in the order of
\* model_refs of the file, one Error "Undefined model reference: '<name>'" at
\* (0,0) for each occurrence of a name that resolve_ref does not resolve, and
\* nothing else.
C7_ErrorsForUndefinedRefs ==
    \A path \in Paths :
        ReadOfModel(path) =>
            \E ord \in Orders :
                last.value = ErrorsFor(Scratch(ModelRefsKey(path), ord).value)

\* orders refers to missing, users, missing and users is a model: two Errors
C7_Witness ==
    /\ ReadOfModel(orders)
    /\ fileText[orders].value = RefMixed
    /\ ~Unresolved("users")
    /\ Len(last.value) = 2

-----------------------------------------------------------------------------
(* C8 *)

\* C8: a read of file_diagnostics returns a list of diagnostics in every
\* state the writes reach, whatever was written and whatever was not.
C8_DiagnosticsNeverFail ==
    (last.op = "read" /\ last.key.q = "file_diagnostics") => last.outcome = "ok"

-----------------------------------------------------------------------------
(* C9 *)

\* the registry a cache-free all_models() returns on the current inputs
Registry == Scratch(AllModelsKey, CHOOSE ord \in Orders : TRUE).value

\* C9: resolve_ref(name) returns None exactly when no Model of the current
\* registry has that name, and when it returns Some(p), p is a key of the
\* registry whose Model has that name.
C9_ResolvesToRegistryEntry ==
    \A name \in Names :
        Returned(ResolveRefKey(name)) =>
            /\ IsNone(last.value) <=>
                   ~ \E p \in DOMAIN Registry : Registry[p].name = name
            /\ IsSome(last.value) =>
                   /\ Unwrap(last.value) \in DOMAIN Registry
                   /\ Registry[Unwrap(last.value)].name = name

\* users was a model, was overwritten with a text that is none, and
\* resolve_ref("users") read next ran again and returned None
C9_Witness ==
    /\ Returned(ResolveRefKey("users"))
    /\ SinceLastWrite
    /\ lastWrite.key = FileTextKey(users)
    /\ IsSome(lastWrite.before)
    /\ IsNone(lastWrite.after)
    /\ ResolveRefKey("users") \in last.ran
    /\ IsNone(last.value)

-----------------------------------------------------------------------------
(* C11 *)

\* the letters of the keyword, in either case
Keyword == << {"S", "s"}, {"E", "e"}, {"L", "l"}, {"E", "e"}, {"C", "c"}, {"T", "t"} >>

\* text contains the keyword SELECT in some letter case
HasKeyword(text) ==
    \E i \in 0..(Len(text) - Len(Keyword)) :
        \A j \in DOMAIN Keyword : SubSeq(text, i + j, i + j) \in Keyword[j]

\* the file stems of the paths of the model
StemOf ==
    users :> "users" @@ orders :> "orders" @@ old_users :> "users"
    @@ util :> "util" @@ v2_util :> "util"

\* C11: parse_model of a written file returns Some(Model{name: stem, path})
\* exactly when the text contains SELECT in any letter case, and None
\* otherwise.
C11_ModelIffKeywordAnyCase ==
    \A path \in Paths :
        Returned(ParseModelKey(path)) =>
            last.value = IF HasKeyword(fileText[path].value)
                         THEN << [name |-> StemOf[path], path |-> path] >>
                         ELSE << >>

-----------------------------------------------------------------------------
(* C12 *)

\* no set_file_text was ever performed for path: every write stamps its cell
\* with the revision it creates, which is 2 or more
NeverWritten(path) == fileText[path].changed_at = 0

\* this step is a read of the text of a file through parse_model or model_refs
ReadsText ==
    /\ ops' # ops
    /\ last'.op = "read"
    /\ last'.key.q \in {"parse_model", "model_refs"}

\* C12: a read of the text of a path fails with NotFound exactly when the
\* path was never written; a path written with the empty text is read, with
\* parse_model None and model_refs []; the failure is the outcome of the
\* derived query, and the read leaves the input cells and the revision as
\* they were.
C12_NotFoundIffNeverWritten ==
    [][ReadsText =>
          /\ (last'.outcome = "NotFound") <=> NeverWritten(last'.key.arg)
          /\ ~NeverWritten(last'.key.arg) => last'.outcome = "ok"
          /\ (~NeverWritten(last'.key.arg) /\ fileText[last'.key.arg].value = "")
                 => last'.value = << >>
          /\ UNCHANGED <<fileText, allFiles, revision>>]_vars

\* a path was written with the empty text, and a read of another path, never
\* written, failed with NotFound
C12_Witness ==
    /\ last.op = "read"
    /\ last.outcome = "NotFound"
    /\ NeverWritten(last.key.arg)
    /\ \E path \in Paths : ~NeverWritten(path) /\ fileText[path].value = ""

-----------------------------------------------------------------------------
(* C15 *)

\* the keys of parse_model and model_refs of the files other than path
PerFileKeysBut(path) ==
    {k \in DerivedKeys : k.q \in {"parse_model", "model_refs"} /\ k.arg # path}

\* C15: after a write of the text of one file, the reads that follow invoke
\* parse_model and model_refs of no other file whose entry was up to date,
\* and a read of all_models, if its entry was up to date, invokes parse_model
\* at most once.
C15_PerFileRecomputation ==
    (SinceLastWrite /\ lastWrite.key.q = "file_text") =>
        /\ \A k \in lastWrite.fresh \cap PerFileKeysBut(lastWrite.key.arg) :
               recomputes[k] = 0
        /\ (last.op = "read" /\ last.key = AllModelsKey
            /\ AllModelsKey \in lastWrite.fresh)
               => Cardinality({k \in last.ran : k.q = "parse_model"}) <= 1

\* the registry of users and orders was up to date, users was rewritten and
\* is no model any more: reading the registry ran all_models and
\* parse_model(users), and parse_model(orders) was not invoked
C15_Witness ==
    /\ SinceLastWrite
    /\ lastWrite.key = FileTextKey(users)
    /\ {AllModelsKey, ParseModelKey(users), ParseModelKey(orders)} \subseteq lastWrite.fresh
    /\ Returned(AllModelsKey)
    /\ last.ran = {AllModelsKey, ParseModelKey(users)}
    /\ recomputes[ParseModelKey(orders)] = 0

-----------------------------------------------------------------------------
(* C16 *)

\* the queries each derived query may call
Calls ==
    [q \in {"parse_model", "model_refs", "all_models", "resolve_ref", "file_diagnostics"} |->
        CASE q = "file_diagnostics" -> {"parse_model", "model_refs", "resolve_ref"}
          [] q = "resolve_ref"      -> {"all_models"}
          [] q = "all_models"       -> {"all_files", "parse_model"}
          [] q = "parse_model"      -> {"file_text"}
          [] q = "model_refs"       -> {"file_text"}]

\* C16: no read ends with CycleError, and what every evaluation read, as
\* recorded with its entry, follows the calls file_diagnostics ->
\* {parse_model, model_refs, resolve_ref}, resolve_ref -> all_models,
\* all_models -> {all_files, parse_model}, parse_model / model_refs ->
\* file_text.
C16_NoCycle ==
    /\ last.op = "read" => last.outcome # "Cycle"
    /\ \A k \in DOMAIN memo :
           \A i \in DOMAIN memo[k].deps : memo[k].deps[i].q \in Calls[k.q]

\* one read of file_diagnostics went through all five queries and returned
C16_Witness ==
    /\ last.op = "read"
    /\ last.key.q = "file_diagnostics"
    /\ last.outcome = "ok"
    /\ {k.q : k \in last.ran} = DOMAIN Calls

-----------------------------------------------------------------------------
(* C17 *)

\* C17: every entry p -> m of the registry all_models returns has m.path = p
\* and m.name the file stem of p, and p is in the current file set; so two
\* entries have one name only when their paths have one stem.
C17_EntriesAreTheirFiles ==
    Returned(AllModelsKey) =>
        /\ \A p \in DOMAIN last.value :
               /\ last.value[p].path = p
               /\ last.value[p].name = StemOf[p]
               /\ p \in Listed
        /\ \A p, q \in DOMAIN last.value :
               last.value[p].name = last.value[q].name => StemOf[p] = StemOf[q]

\* the registry holds two models of one name, of two listed files of one stem
C17_Witness ==
    /\ Returned(AllModelsKey)
    /\ \E p, q \in DOMAIN last.value :
           p # q /\ last.value[p].name = last.value[q].name

-----------------------------------------------------------------------------
(* C18 *)

\* this step reads the diagnostics of a written file that is no model
ReadsNoModel ==
    /\ ops' # ops
    /\ last'.op = "read"
    /\ last'.key.q = "file_diagnostics"
    /\ fileText[last'.key.arg].set
    /\ IsNone(ModelIn(last'.key.arg, fileText[last'.key.arg]))

\* the diagnostics read in this step were cached and up to date before the
\* last write, which was a write of the file set or of the text of another
\* file
CachedBeforeOtherWrite ==
    /\ SinceLastWrite
    /\ lastWrite.key # FileTextKey(last'.key.arg)
    /\ last'.key.arg \in lastWrite.cached

\* C18: the evaluation of file_diagnostics of a file that is no model reads
\* parse_model of that file and nothing else; so after a write of the file
\* set or of the text of another file, a read of it invokes no
\* file_diagnostics and returns the value it had.
C18_NoModelReadsParseModelOnly ==
    [][ReadsNoModel =>
          /\ last'.outcome = "ok"
          /\ memo'[last'.key].deps = << ParseModelKey(last'.key.arg) >>
          /\ CachedBeforeOtherWrite =>
                 /\ last'.key \notin last'.ran
                 /\ last'.value = memo[last'.key].value]_vars

\* the diagnostics of a file that is no model were cached, the file set was
\* replaced, and the read after it invoked no query function
C18_Witness ==
    /\ last.op = "read"
    /\ last.key.q = "file_diagnostics"
    /\ last.outcome = "ok"
    /\ IsNone(ModelIn(last.key.arg, fileText[last.key.arg]))
    /\ SinceLastWrite
    /\ lastWrite.key = AllFilesKey
    /\ lastWrite.differs
    /\ last.key.arg \in lastWrite.cached
    /\ last.ran = {}
=============================================================================
